---- MODULE Spec2Model ----
(***************************************************************************)
(* ConnectionController (plugin-connection-preconfigured): the two-step    *)
(* "connect to a preconfigured database" dialog controller.                *)
(*                                                                         *)
(* The controller runs on one event loop.  Every public method is one      *)
(* atomic step up to its first await; every continuation after an await is *)
(* another atomic step.  Collaborators (resources, connection service)     *)
(* settle their promises with a result chosen by the environment.          *)
(***************************************************************************)
EXTENDS Naturals, Sequences, FiniteSets, TLC

VARIABLES
  step,             \* @observable step
  isLoading,        \* @observable isLoading
  isConnecting,     \* @observable isConnecting
  dbSource,         \* @observable dbSource (Null when null/undefined)
  authModel,        \* @observable authModel (Null when undefined)
  config,           \* @observable config
  hasDetails,       \* @observable hasDetails
  responseMessage,  \* @observable responseMessage
  exception,        \* private exception
  onClose,          \* private onClose
  isDistructed,     \* private isDistructed
  srcLoaded,        \* templateDataSourceListResource.data has been loaded
  drvLoaded,        \* dbDriverResource.data has been loaded
  pcLoad,           \* position of loadDBSources
  selects,          \* onDBSourceSelect calls suspended at their await
  connects,         \* onConnect calls suspended at their await
  firstCall,        \* the first onConnect call: "none", "pending", "settled"
  closed,           \* the close callback has been invoked
  lastOp,           \* the handler or continuation that ran last
  calls             \* the collaborator calls made by that step, in order

vars == <<step, isLoading, isConnecting, dbSource, authModel, config,
          hasDetails, responseMessage, exception, onClose, isDistructed,
          srcLoaded, drvLoaded, pcLoad, selects, connects, firstCall,
          closed, lastOp, calls>>

ctrlFields == <<step, isLoading, isConnecting, dbSource, authModel, config,
                hasDetails, responseMessage, exception, onClose, isDistructed>>

----------------------------------------------------------------------------
(* Bounds *)

MaxSelects == 2     \* onDBSourceSelect calls suspended at the same time
MaxConnects == 2    \* onConnect calls suspended at the same time
MaxPending == 2     \* calls of both kinds suspended at the same time

----------------------------------------------------------------------------
(* Values *)

Null == "null"                      \* null / undefined

DBSourceStep == "DBSource"          \* ConnectionStep.DBSource
ConnectionStep == "Connection"      \* ConnectionStep.Connection
Steps == {DBSourceStep, ConnectionStep}

\* The preconfigured sources and the drivers they refer to.
SourceIds == {"pg1", "h2a"}
DriverIds == {"postgres", "h2"}

driverId(src) ==
  CASE src = "pg1" -> "postgres"
    [] src = "h2a" -> "h2"

defaultAuthModel(drv) ==
  CASE drv = "postgres" -> "basic"
    [] drv = "h2"       -> "embedded"

anonymousAccess(drv) == drv = "h2"

\* Credential maps (string -> string) the view can put into config.
CredKeys == {"user"}
CredValues == {"admin"}
EmptyCredentials == [k \in {} |-> "admin"]
CredentialMaps == UNION {[K -> CredValues] : K \in SUBSET CredKeys}

\* Thrown values: two GQLErrors (with and without details) and a plain Error.
Exceptions == {"gqlDetailed", "gqlPlain", "error"}
isGQLError(ex) == ex \in {"gqlDetailed", "gqlPlain"}
errorText(ex) == IF ex = "gqlDetailed" THEN "Access denied" ELSE "Timeout"
exHasDetails(ex) == ex = "gqlDetailed"

NoConfig == [dataSourceId |-> Null, authModelId |-> Null,
             credentials |-> EmptyCredentials]

\* A call made to a collaborator.
Call(fn, a, msg, cfg) == [fn |-> fn, a |-> a, msg |-> msg, cfg |-> cfg]
logInfoCall == Call("logInfo", Null, "Connection established", NoConfig)
logExceptionCall(ex, message) == Call("logException", ex, message, NoConfig)
onCloseCall(callback) == Call("onClose", callback, Null, NoConfig)
openCall(cfg) == Call("openConnectionAsync", Null, Null, cfg)
loadAuthCall(id) == Call("dbAuthModelsResource.load", id, Null, NoConfig)
loadAllCall(res) == Call("loadAll", res, Null, NoConfig)
openDialogCall(ex) == Call("commonDialogService.open", ex, Null, NoConfig)

\* The step that ran last: its name, its argument or settled value (for the
\* continuations of onDBSourceSelect the source whose selection has run with
\* no other step in between, Null when another step came in between), and the
\* call it belongs to: for the steps of onDBSourceSelect the driver
\* loadAuthModel resolved for the call, for the continuations of onConnect
\* whether the call is the first onConnect call made ("first" / "later").
Op(op, arg, of) == [op |-> op, arg |-> arg, of |-> of]

----------------------------------------------------------------------------
(* Derived views and private helpers *)

\* dbSources.find(dbSource => dbSource.id === sourceId)
findSource(sourceId) ==
  IF srcLoaded /\ sourceId \in SourceIds THEN sourceId ELSE Null

\* get dbDriver(), for the source held in dbSource
dbDriverOf(src) ==
  IF src = Null THEN Null
  ELSE IF drvLoaded THEN driverId(src) ELSE Null

errState ==
  [responseMessage |-> responseMessage, hasDetails |-> hasDetails,
   exception |-> exception]

\* clearError that forgets to drop the held exception
clearErrorKeepsException ==
  [responseMessage |-> Null, hasDetails |-> FALSE, exception |-> exception]

\* clearError that leaves the message on display
clearErrorKeepsMessage ==
  [responseMessage |-> responseMessage, hasDetails |-> FALSE,
   exception |-> Null]

clearError ==
  [responseMessage |-> Null, hasDetails |-> FALSE, exception |-> Null]

\* showError without the isDistructed test
showErrorUnguarded(ex, message) ==
  IF isGQLError(ex)
  THEN [err |-> [responseMessage |-> errorText(ex),
                 hasDetails |-> exHasDetails(ex),
                 exception |-> ex],
        out |-> <<>>]
  ELSE [err |-> errState, out |-> <<logExceptionCall(ex, message)>>]

\* showError that also shows the fallback message of a generic error
showErrorGenericShown(ex, message) ==
  IF isGQLError(ex) /\ ~isDistructed
  THEN [err |-> [responseMessage |-> errorText(ex),
                 hasDetails |-> exHasDetails(ex),
                 exception |-> ex],
        out |-> <<>>]
  ELSE [err |-> [responseMessage |-> message, hasDetails |-> FALSE,
                 exception |-> exception],
        out |-> <<logExceptionCall(ex, message)>>]

\* showError: the error fields it leaves and the notification calls it makes
showError(ex, message) ==
  IF isGQLError(ex) /\ ~isDistructed
  THEN [err |-> [responseMessage |-> errorText(ex),
                 hasDetails |-> exHasDetails(ex),
                 exception |-> ex],
        out |-> <<>>]
  ELSE [err |-> errState, out |-> <<logExceptionCall(ex, message)>>]

\* A suspended onDBSourceSelect call is described by the driver loadAuthModel
\* resolved for it (Null when dbDriver was undefined) and by where it waits:
\*   "load"   in loadAuthModel, awaiting dbAuthModelsResource.load
\*   "resume" loadAuthModel has returned, the await in onDBSourceSelect has
\*            not resumed yet
\* The continuations read nothing else of the call, so the suspended calls
\* are counted per description.  The continuation of onConnect reads nothing
\* of its call at all, so the suspended onConnect calls are only counted.
Select(drv, phase) == [drv |-> drv, phase |-> phase]
SelectKinds ==
  {Select(d, "resume") : d \in DriverIds \cup {Null}}
    \cup {Select(d, "load") : d \in {e \in DriverIds : ~anonymousAccess(e)}}

RECURSIVE SumOver(_, _)
SumOver(f, S) ==
  IF S = {} THEN 0
  ELSE LET x == CHOOSE y \in S : TRUE IN f[x] + SumOver(f, S \ {x})

pendingSelects == SumOver(selects, SelectKinds)
Add(f, k) == [f EXCEPT ![k] = @ + 1]
Remove(f, k) == [f EXCEPT ![k] = @ - 1]

\* room for one more suspended onConnect call; n calls are about to resume
canSuspendConnect(n) ==
  connects < MaxConnects /\ pendingSelects - n + connects < MaxPending
canSuspendSelect ==
  pendingSelects < MaxSelects /\ pendingSelects + connects < MaxPending

\* getConnectionConfig that hands the config object itself to the opener
getConnectionConfigWhole(cfg) == cfg

getConnectionConfig(cfg) ==
  [dataSourceId |-> cfg.dataSourceId,
   authModelId |-> cfg.authModelId,
   credentials |-> cfg.credentials]

\* setDBSourceDefaults that leaves the credentials of the previous source
setDBSourceDefaultsKeepsCredentials(cfg, src) ==
  [cfg EXCEPT !.dataSourceId = src,
              !.authModelId = IF dbDriverOf(src) = Null THEN Null
                              ELSE defaultAuthModel(dbDriverOf(src))]

\* setDBSourceDefaults that leaves the auth model id of the previous source
setDBSourceDefaultsKeepsAuthModel(cfg, src) ==
  [cfg EXCEPT !.dataSourceId = src,
              !.credentials = EmptyCredentials]

setDBSourceDefaults(cfg, src) ==
  [cfg EXCEPT !.dataSourceId = src,
              !.authModelId = IF dbDriverOf(src) = Null THEN Null
                              ELSE defaultAuthModel(dbDriverOf(src)),
              !.credentials = EmptyCredentials]

----------------------------------------------------------------------------
\* The fields of the controller after construction.
InitFields ==
  /\ step = DBSourceStep
  /\ isLoading = TRUE
  /\ isConnecting = FALSE
  /\ dbSource = Null
  /\ authModel = Null
  /\ hasDetails = FALSE
  /\ responseMessage = Null
  /\ exception = Null
  /\ onClose = Null
  /\ isDistructed = FALSE
  /\ pcLoad = "new"
  /\ selects = [k \in SelectKinds |-> 0]
  /\ connects = 0
  /\ firstCall = "none"
  /\ closed = FALSE
  /\ lastOp = Op("constructor", Null, Null)
  /\ calls = <<>>

\* The state after construction when the two resources hold no data yet.
Init ==
  /\ InitFields
  /\ config = NoConfig
  /\ srcLoaded = FALSE
  /\ drvLoaded = FALSE

\* The state after construction in general: the two resources are injected
\* and shared with the rest of the application, so their data may already be
\* there (an earlier dialog loaded it) or not.
InitShared ==
  /\ InitFields
  /\ config = NoConfig
  /\ srcLoaded \in BOOLEAN
  /\ drvLoaded \in BOOLEAN

\* The state after construction when the view has put a field into config
\* that the controller itself never writes (ConnectionConfig.name).
ExtraName == "Postgres (template)"
InitNamed ==
  /\ InitFields
  /\ config = [dataSourceId |-> Null, authModelId |-> Null,
               credentials |-> EmptyCredentials, name |-> ExtraName]
  /\ srcLoaded = FALSE
  /\ drvLoaded = FALSE

----------------------------------------------------------------------------
(* Suspended calls *)

\* init has run: IInitializableController.init is called by the container
\* right after construction, before the view can reach any handler.
inited == onClose # Null

----------------------------------------------------------------------------
(* init / loadDBSources *)

\* catch block of loadDBSources
loadDBSourcesCatch(ex) ==
  [err |-> errState,
   out |-> <<logExceptionCall(ex, "Can't load database sources")>>]

\* catch block of loadAuthModel routed through showError
loadAuthModelCatchShowsError(ex) == showError(ex, "Can't load driver auth model")

\* catch block of loadAuthModel
loadAuthModelCatch(ex) ==
  [err |-> errState,
   out |-> <<logExceptionCall(ex, "Can't load driver auth model")>>]

\* init(onClose): store the callback, start loadDBSources up to its first await
InitCtl ==
  /\ onClose = Null
  /\ onClose' = "onClose"
  /\ pcLoad' = "sources"
  /\ lastOp' = Op("init", Null, Null)
  /\ calls' = <<loadAllCall("templateDataSourceListResource")>>
  /\ UNCHANGED <<step, isLoading, isConnecting, dbSource, authModel, config,
                 hasDetails, responseMessage, exception, isDistructed,
                 srcLoaded, drvLoaded, selects, connects, firstCall, closed>>

\* templateDataSourceListResource.loadAll() resolved; dbDriverResource.loadAll() starts
LoadSourcesDone ==
  /\ pcLoad = "sources"
  /\ srcLoaded' = TRUE
  /\ pcLoad' = "drivers"
  /\ lastOp' = Op("loadDBSources.sources", Null, Null)
  /\ calls' = <<loadAllCall("dbDriverResource")>>
  /\ UNCHANGED <<ctrlFields, drvLoaded, selects, connects, firstCall, closed>>

\* dbDriverResource.loadAll() resolved; finally block
LoadDriversDone ==
  /\ pcLoad = "drivers"
  /\ drvLoaded' = TRUE
  /\ pcLoad' = "done"
  /\ isLoading' = FALSE
  /\ lastOp' = Op("loadDBSources.drivers", Null, Null)
  /\ calls' = <<>>
  /\ UNCHANGED <<step, isConnecting, dbSource, authModel, config, hasDetails,
                 responseMessage, exception, onClose, isDistructed,
                 srcLoaded, selects, connects, firstCall, closed>>

\* either loadAll() rejected with ex; catch and finally blocks
LoadDBSourcesFail(ex) ==
  /\ pcLoad \in {"sources", "drivers"}
  /\ LET r == loadDBSourcesCatch(ex) IN
       /\ responseMessage' = r.err.responseMessage
       /\ hasDetails' = r.err.hasDetails
       /\ exception' = r.err.exception
       /\ calls' = r.out
  /\ pcLoad' = "done"
  /\ isLoading' = FALSE
  /\ lastOp' = Op("loadDBSources.catch", ex, Null)
  /\ UNCHANGED <<step, isConnecting, dbSource, authModel, config, onClose,
                 isDistructed, srcLoaded, drvLoaded, selects, connects, firstCall, closed>>

----------------------------------------------------------------------------
(* destruct, onStep, onShowDetails, edits of config.credentials by the view *)

Destruct ==
  /\ inited
  /\ isDistructed' = TRUE
  /\ lastOp' = Op("destruct", Null, Null)
  /\ calls' = <<>>
  /\ UNCHANGED <<step, isLoading, isConnecting, dbSource, authModel, config,
                 hasDetails, responseMessage, exception, onClose,
                 srcLoaded, drvLoaded, pcLoad, selects, connects, firstCall, closed>>

OnStep(s) ==
  /\ inited
  /\ step' = s
  /\ responseMessage' = clearError.responseMessage
  /\ hasDetails' = clearError.hasDetails
  /\ exception' = clearError.exception
  /\ lastOp' = Op("onStep", s, Null)
  /\ calls' = <<>>
  /\ UNCHANGED <<isLoading, isConnecting, dbSource, authModel, config, onClose,
                 isDistructed, srcLoaded, drvLoaded, pcLoad, selects, connects, firstCall, closed>>

OnShowDetails ==
  /\ inited
  /\ calls' = IF exception # Null THEN <<openDialogCall(exception)>> ELSE <<>>
  /\ lastOp' = Op("onShowDetails", Null, Null)
  /\ UNCHANGED <<ctrlFields, srcLoaded, drvLoaded, pcLoad, selects, connects, firstCall, closed>>

\* the view writes the credentials the user typed into config.credentials
EditCredentials(m) ==
  /\ inited
  /\ config' = [config EXCEPT !.credentials = m]
  /\ lastOp' = Op("editCredentials", Null, Null)
  /\ calls' = <<>>
  /\ UNCHANGED <<step, isLoading, isConnecting, dbSource, authModel,
                 hasDetails, responseMessage, exception, onClose, isDistructed,
                 srcLoaded, drvLoaded, pcLoad, selects, connects, firstCall, closed>>

----------------------------------------------------------------------------
(* onConnect *)

\* success path that closes the dialog before it notifies
onConnectThenClosesFirst == <<onCloseCall(onClose), logInfoCall>>

\* success path that does nothing once the controller is destructed
onConnectThenUnlessDestructed ==
  IF isDistructed THEN <<>> ELSE <<logInfoCall, onCloseCall(onClose)>>

\* success path of onConnect after the await: logInfo, then onClose()
onConnectThen == <<logInfoCall, onCloseCall(onClose)>>

\* the first onConnect call is recorded when it is made
noteCall(fc) == IF fc = "none" THEN "pending" ELSE fc

\* a suspended onConnect call can settle: the first call while it is pending,
\* a later call when one is suspended besides the first
canSettle(first) ==
  IF first THEN firstCall = "pending"
  ELSE connects > (IF firstCall = "pending" THEN 1 ELSE 0)
noteSettled(first) == IF first THEN "settled" ELSE firstCall
whichCall(first) == IF first THEN "first" ELSE "later"

\* onConnect up to its await
OnConnect ==
  /\ inited
  /\ canSuspendConnect(0)
  /\ isConnecting' = TRUE
  /\ responseMessage' = clearError.responseMessage
  /\ hasDetails' = clearError.hasDetails
  /\ exception' = clearError.exception
  /\ connects' = connects + 1
  /\ firstCall' = noteCall(firstCall)
  /\ calls' = <<openCall(getConnectionConfig(config))>>
  /\ lastOp' = Op("onConnect", Null, Null)
  /\ UNCHANGED <<step, isLoading, dbSource, authModel, config, onClose,
                 isDistructed, srcLoaded, drvLoaded, pcLoad, selects, closed>>

\* openConnectionAsync resolved for a suspended call; finally block
OnConnectThen(first) ==
  /\ canSettle(first)
  /\ calls' = onConnectThen
  /\ isConnecting' = FALSE
  /\ connects' = connects - 1
  /\ firstCall' = noteSettled(first)
  /\ closed' = (closed \/ \E i \in 1..Len(onConnectThen) :
                              onConnectThen[i].fn = "onClose")
  /\ lastOp' = Op("onConnect.then", Null, whichCall(first))
  /\ UNCHANGED <<step, isLoading, dbSource, authModel, config, hasDetails,
                 responseMessage, exception, onClose, isDistructed,
                 srcLoaded, drvLoaded, pcLoad, selects>>

\* a catch block that also drops the credentials the user typed
OnConnectCatchDropsCredentials(first, ex) ==
  /\ canSettle(first)
  /\ LET r == showError(ex, "Failed to establish connection") IN
       /\ responseMessage' = r.err.responseMessage
       /\ hasDetails' = r.err.hasDetails
       /\ exception' = r.err.exception
       /\ calls' = r.out
  /\ config' = [config EXCEPT !.credentials = EmptyCredentials]
  /\ isConnecting' = FALSE
  /\ connects' = connects - 1
  /\ firstCall' = noteSettled(first)
  /\ lastOp' = Op("onConnect.catch", ex, whichCall(first))
  /\ UNCHANGED <<step, isLoading, dbSource, authModel, onClose,
                 isDistructed, srcLoaded, drvLoaded, pcLoad, selects, closed>>

\* openConnectionAsync rejected with ex for a suspended call;
\* catch and finally blocks
OnConnectCatch(first, ex) ==
  /\ canSettle(first)
  /\ LET r == showError(ex, "Failed to establish connection") IN
       /\ responseMessage' = r.err.responseMessage
       /\ hasDetails' = r.err.hasDetails
       /\ exception' = r.err.exception
       /\ calls' = r.out
  /\ isConnecting' = FALSE
  /\ connects' = connects - 1
  /\ firstCall' = noteSettled(first)
  /\ lastOp' = Op("onConnect.catch", ex, whichCall(first))
  /\ UNCHANGED <<step, isLoading, dbSource, authModel, config, onClose,
                 isDistructed, srcLoaded, drvLoaded, pcLoad, selects, closed>>

----------------------------------------------------------------------------
(* onDBSourceSelect / loadAuthModel *)

\* a selection that returns to the source list
selectStepBack == DBSourceStep

\* the step onDBSourceSelect moves to once loadAuthModel has returned
selectStep == ConnectionStep

\* the descriptor dbAuthModelsResource.load resolves with: the model whose
\* id was requested
loadedModel(authModelId) == authModelId

\* the source of the selection this continuation follows directly: the step
\* before it was the step `op` of a selection with the same driver
follows(op, drv) ==
  IF lastOp.op = op /\ lastOp.of = drv THEN lastOp.arg ELSE Null

\* onDBSourceSelect(sourceId) up to its await, loadAuthModel up to its await
OnDBSourceSelect(sourceId) ==
  /\ inited
  /\ canSuspendSelect
  /\ LET src == findSource(sourceId)
         drv == dbDriverOf(src)
     IN
       /\ dbSource' = src
       /\ lastOp' = Op("onDBSourceSelect", sourceId, drv)
       /\ IF drv = Null \/ anonymousAccess(drv)
          THEN /\ selects' = Add(selects, Select(drv, "resume"))
               /\ calls' = <<>>
               /\ UNCHANGED isLoading
          ELSE /\ isLoading' = TRUE
               /\ selects' = Add(selects, Select(drv, "load"))
               /\ calls' = <<loadAuthCall(defaultAuthModel(drv))>>
  /\ UNCHANGED <<step, isConnecting, authModel, config, hasDetails,
                 responseMessage, exception, onClose, isDistructed,
                 srcLoaded, drvLoaded, pcLoad, connects, firstCall, closed>>

\* dbAuthModelsResource.load resolved for a call suspended in loadAuthModel
LoadAuthModelDone(drv) ==
  /\ Select(drv, "load") \in SelectKinds
  /\ selects[Select(drv, "load")] > 0
  /\ authModel' = loadedModel(defaultAuthModel(drv))
  /\ isLoading' = FALSE
  /\ selects' = Add(Remove(selects, Select(drv, "load")), Select(drv, "resume"))
  /\ lastOp' = Op("loadAuthModel.then", follows("onDBSourceSelect", drv), drv)
  /\ calls' = <<>>
  /\ UNCHANGED <<step, isConnecting, dbSource, config, hasDetails,
                 responseMessage, exception, onClose, isDistructed,
                 srcLoaded, drvLoaded, pcLoad, connects, firstCall, closed>>

\* dbAuthModelsResource.load rejected with ex; catch and finally blocks
LoadAuthModelFail(drv, ex) ==
  /\ Select(drv, "load") \in SelectKinds
  /\ selects[Select(drv, "load")] > 0
  /\ LET r == loadAuthModelCatch(ex) IN
       /\ responseMessage' = r.err.responseMessage
       /\ hasDetails' = r.err.hasDetails
       /\ exception' = r.err.exception
       /\ calls' = r.out
  /\ isLoading' = FALSE
  /\ selects' = Add(Remove(selects, Select(drv, "load")), Select(drv, "resume"))
  /\ lastOp' = Op("loadAuthModel.catch", ex, drv)
  /\ UNCHANGED <<step, isConnecting, dbSource, authModel, config, onClose,
                 isDistructed, srcLoaded, drvLoaded, pcLoad, connects, firstCall, closed>>

\* onDBSourceSelect after its await: clearError, setDBSourceDefaults, step,
\* and onConnect up to its await when no auth model is held
OnDBSourceSelectResume(drv) ==
  /\ selects[Select(drv, "resume")] > 0
  /\ authModel = Null => canSuspendConnect(1)
  /\ LET cfg == setDBSourceDefaults(config, dbSource) IN
       /\ config' = cfg
       /\ step' = selectStep
       /\ responseMessage' = clearError.responseMessage
       /\ hasDetails' = clearError.hasDetails
       /\ exception' = clearError.exception
       /\ IF authModel = Null
          THEN /\ isConnecting' = TRUE
               /\ connects' = connects + 1
               /\ firstCall' = noteCall(firstCall)
               /\ calls' = <<openCall(getConnectionConfig(cfg))>>
          ELSE /\ calls' = <<>>
               /\ UNCHANGED <<isConnecting, connects, firstCall>>
  /\ selects' = Remove(selects, Select(drv, "resume"))
  /\ lastOp' = Op("onDBSourceSelect.resume",
                  follows("loadAuthModel.then", drv), drv)
  /\ UNCHANGED <<isLoading, dbSource, authModel, onClose, isDistructed,
                 srcLoaded, drvLoaded, pcLoad, closed>>

----------------------------------------------------------------------------
Next ==
  \/ InitCtl
  \/ LoadSourcesDone
  \/ LoadDriversDone
  \/ \E ex \in Exceptions : LoadDBSourcesFail(ex)
  \/ Destruct
  \/ \E s \in Steps : OnStep(s)
  \/ OnShowDetails
  \/ \E m \in CredentialMaps : EditCredentials(m)
  \/ OnConnect
  \/ \E first \in BOOLEAN : OnConnectThen(first)
  \/ \E first \in BOOLEAN, ex \in Exceptions : OnConnectCatch(first, ex)
  \/ \E sourceId \in SourceIds : OnDBSourceSelect(sourceId)
  \/ \E drv \in DriverIds : LoadAuthModelDone(drv)
  \/ \E drv \in DriverIds, ex \in Exceptions : LoadAuthModelFail(drv, ex)
  \/ \E drv \in DriverIds \cup {Null} : OnDBSourceSelectResume(drv)

Spec == Init /\ [][Next]_vars

SpecShared == InitShared /\ [][Next]_vars

SpecNamed == InitNamed /\ [][Next]_vars

TypeOK ==
  /\ step \in Steps
  /\ isLoading \in BOOLEAN
  /\ isConnecting \in BOOLEAN
  /\ dbSource \in SourceIds \cup {Null}
  /\ config.credentials \in CredentialMaps
  /\ hasDetails \in BOOLEAN
  /\ exception \in Exceptions \cup {Null}
  /\ isDistructed \in BOOLEAN
  /\ pendingSelects <= MaxSelects
  /\ connects \in 0..MaxConnects
  /\ firstCall \in {"none", "pending", "settled"}
  /\ firstCall = "pending" => connects > 0
  /\ firstCall = "none" => connects = 0

----------------------------------------------------------------------------
(* Properties *)

HasCall(fn) == \E i \in 1..Len(calls) : calls[i].fn = fn
CountCalls(fn) == Cardinality({i \in 1..Len(calls) : calls[i].fn = fn})
errFields == <<responseMessage, hasDetails, exception>>
ConnectFailedMsg == "Failed to establish connection"

\* C1: a call of onDBSourceSelect on a source whose driver has
\* anonymousAccess = true issues no auth-model load, and when it completes
\* (at step = Connection) it has issued a connection-open request itself.
C1_AnonymousSelectConnects ==
  /\ (lastOp.op = "onDBSourceSelect" /\ lastOp.of # Null
        /\ anonymousAccess(lastOp.of))
       => ~HasCall("dbAuthModelsResource.load")
  /\ (lastOp.op = "onDBSourceSelect.resume" /\ lastOp.of # Null
        /\ anonymousAccess(lastOp.of))
       => (step = ConnectionStep /\ CountCalls("openConnectionAsync") = 1)

\* C2: a call of onDBSourceSelect on a source whose driver has
\* anonymousAccess = false requests the driver's defaultAuthModel, ends at
\* step = Connection and issues no connection-open request itself, whether
\* the load succeeded or failed.
C2_AuthSelectWaitsForUser ==
  /\ (lastOp.op = "onDBSourceSelect" /\ lastOp.of # Null
        /\ ~anonymousAccess(lastOp.of))
       => calls = <<loadAuthCall(defaultAuthModel(lastOp.of))>>
  /\ (lastOp.op = "onDBSourceSelect.resume" /\ lastOp.of # Null
        /\ ~anonymousAccess(lastOp.of))
       => (step = ConnectionStep /\ ~HasCall("openConnectionAsync"))

\* C3: once destruct() has run, the failure of a suspended onConnect call
\* (structured or generic) leaves responseMessage, hasDetails and the held
\* exception as they were.
C3_FailureAfterDestructKeepsErrorState ==
  [][(lastOp'.op = "onConnect.catch" /\ isDistructed)
       => UNCHANGED errFields]_vars

C3_Witness ==
  /\ lastOp.op = "onConnect.catch"
  /\ isGQLError(lastOp.arg)
  /\ isDistructed
  /\ responseMessage = Null
  /\ calls = <<logExceptionCall(lastOp.arg, ConnectFailedMsg)>>

\* C4: isConnecting is false before the first onConnect call, true while
\* that call is awaiting the connection opener, and false in the state in
\* which that call has resolved or rejected.
C4_IsConnectingFollowsFirstCall ==
  /\ firstCall = "none" => ~isConnecting
  /\ firstCall = "pending" => isConnecting
  /\ (lastOp.op \in {"onConnect.then", "onConnect.catch"}
        /\ lastOp.of = "first") => ~isConnecting

C6_SelectionEmptiesCredentials ==
  lastOp.op = "onDBSourceSelect.resume" => config.credentials = EmptyCredentials

C6_Witness ==
  /\ lastOp.op = "onDBSourceSelect.resume"
  /\ config.dataSourceId = "pg1"
  /\ authModel # Null
  /\ config.credentials = EmptyCredentials

\* C7: onStep(s) yields step = s, responseMessage null, hasDetails false and
\* no held exception.
C7_OnStepClearsError ==
  lastOp.op = "onStep"
    => /\ step = lastOp.arg
       /\ responseMessage = Null
       /\ hasDetails = FALSE
       /\ exception = Null

C7_Witness ==
  /\ lastOp.op = "onStep"
  /\ step = DBSourceStep
  /\ config.dataSourceId # Null
  /\ responseMessage = Null
  /\ exception = Null

\* C8: step goes from Connection back to DBSource only in an onStep call.
C8_OnlyOnStepGoesBack ==
  [][(step = ConnectionStep /\ step' = DBSourceStep)
       => lastOp'.op = "onStep"]_vars

C8_Witness ==
  /\ step = ConnectionStep
  /\ lastOp.op = "onConnect.catch"
  /\ config.dataSourceId # Null

\* C9: when the open request of an onConnect call succeeds, one logInfo and
\* then onClose() are the calls made; when it fails, neither is made.
C9_SuccessNotifiesThenCloses ==
  /\ lastOp.op = "onConnect.then"
       => calls = <<logInfoCall, onCloseCall(onClose)>>
  /\ lastOp.op = "onConnect.catch"
       => (~HasCall("logInfo") /\ ~HasCall("onClose"))

C9_Witness ==
  /\ lastOp.op = "onConnect.then"
  /\ Len(calls) = 2
  /\ calls[1].fn = "logInfo"
  /\ calls[2].fn = "onClose"
  /\ calls[2].a = "onClose"

\* C10: a failure of the initial list load or of the auth-model load is
\* reported by one logException call and leaves responseMessage, hasDetails
\* and the held exception unchanged, also for a GQLError.
C10_LoadFailuresOnlyLogged ==
  [][/\ lastOp'.op = "loadDBSources.catch"
          => /\ calls' = <<logExceptionCall(lastOp'.arg,
                                            "Can't load database sources")>>
             /\ UNCHANGED errFields
     /\ lastOp'.op = "loadAuthModel.catch"
          => /\ calls' = <<logExceptionCall(lastOp'.arg,
                                            "Can't load driver auth model")>>
             /\ UNCHANGED errFields]_vars

C10_Witness ==
  /\ lastOp.op = "loadAuthModel.catch"
  /\ isGQLError(lastOp.arg)
  /\ ~isDistructed
  /\ responseMessage = Null
  /\ HasCall("logException")

\* C11 (safety part): after init, isLoading is true in every state in which
\* the data-source load or the driver-registry load is still in flight.
C11_LoadingUntilInitialLoadEnds ==
  pcLoad \in {"sources", "drivers"} => isLoading

\* C12: a selection of source s with a driver d that requires auth, whose
\* auth-model load succeeds and whose three steps run with nothing in
\* between, ends at step = Connection with dbSource = s, config reset to
\* s and d's defaults, the model of d.defaultAuthModel held, isLoading false
\* and no error state.
C12_SelectionEndState ==
  (lastOp.op = "onDBSourceSelect.resume" /\ lastOp.arg # Null)
    => /\ step = ConnectionStep
       /\ dbSource = lastOp.arg
       /\ config = [dataSourceId |-> lastOp.arg,
                    authModelId |-> defaultAuthModel(driverId(lastOp.arg)),
                    credentials |-> EmptyCredentials]
       /\ authModel = loadedModel(defaultAuthModel(driverId(lastOp.arg)))
       /\ isLoading = FALSE
       /\ responseMessage = Null
       /\ hasDetails = FALSE
       /\ exception = Null

C12_Witness ==
  /\ lastOp.op = "onDBSourceSelect.resume"
  /\ lastOp.arg = "pg1"
  /\ step = ConnectionStep
  /\ authModel = "basic"
  /\ config.authModelId = "basic"
  /\ ~HasCall("openConnectionAsync")

ConfigFields == {"dataSourceId", "authModelId", "credentials"}
OpenCount(cs) ==
  Cardinality({i \in 1..Len(cs) : cs[i].fn = "openConnectionAsync"})

\* C13: every request passed to the connection opener has exactly the fields
\* dataSourceId, authModelId and credentials, each equal to the same field
\* of config as onConnect found it; no other field of config is forwarded.
C13_RequestIsMinimalConfig ==
  \A i \in 1..Len(calls) :
    calls[i].fn = "openConnectionAsync"
      => /\ DOMAIN calls[i].cfg = ConfigFields
         /\ calls[i].cfg.dataSourceId = config.dataSourceId
         /\ calls[i].cfg.authModelId = config.authModelId
         /\ calls[i].cfg.credentials = config.credentials

C13_Witness ==
  /\ lastOp.op = "onConnect"
  /\ HasCall("openConnectionAsync")
  /\ config.name = ExtraName
  /\ config.dataSourceId = "pg1"
  /\ config.credentials # EmptyCredentials

\* C14: an onConnect call issues exactly one open request when it is made
\* and none when it settles; its failure leaves step, dbSource, authModel
\* and config unchanged and isConnecting false, and an onConnect call made
\* then issues a request with the configuration as it stands.
C14_FailureLeavesControllerReady ==
  [][/\ lastOp'.op = "onConnect"
          => calls' = <<openCall([dataSourceId |-> config.dataSourceId,
                                  authModelId |-> config.authModelId,
                                  credentials |-> config.credentials])>>
     /\ lastOp'.op = "onDBSourceSelect.resume" => OpenCount(calls') <= 1
     /\ lastOp'.op \in {"onConnect.then", "onConnect.catch"}
          => OpenCount(calls') = 0
     /\ lastOp'.op = "onConnect.catch"
          => /\ UNCHANGED <<step, dbSource, authModel, config>>
             /\ isConnecting' = FALSE]_vars

C14_Witness ==
  /\ lastOp.op = "onConnect.catch"
  /\ isConnecting = FALSE
  /\ connects = 0
  /\ step = ConnectionStep
  /\ config.dataSourceId = "pg1"
  /\ config.credentials # EmptyCredentials

\* C15: destruct() changes only the destructed flag and leaves every
\* suspended call suspended; a connect that succeeds after destruct still
\* logs the notification and invokes the close callback, and one that fails
\* after destruct with a structured error goes to logException.
C15_DestructCancelsNothing ==
  [][/\ lastOp'.op = "destruct"
          => /\ isDistructed'
             /\ UNCHANGED <<step, isLoading, isConnecting, dbSource, authModel,
                            config, hasDetails, responseMessage, exception,
                            onClose, pcLoad, selects, connects>>
     /\ (lastOp'.op = "onConnect.then" /\ isDistructed)
          => calls' = <<logInfoCall, onCloseCall(onClose)>>
     /\ (lastOp'.op = "onConnect.catch" /\ isDistructed
           /\ isGQLError(lastOp'.arg))
          => calls' = <<logExceptionCall(lastOp'.arg, ConnectFailedMsg)>>]_vars

C15_Witness ==
  /\ lastOp.op = "onConnect.then"
  /\ isDistructed
  /\ HasCall("logInfo")
  /\ HasCall("onClose")

\* C16: onShowDetails opens the details dialog with the held exception
\* exactly when one is held and changes no field; and in every state a
\* displayed error (hasDetails or a non-null responseMessage) has an
\* exception held.
C16_DetailsFollowHeldException ==
  /\ []((hasDetails \/ responseMessage # Null) => exception # Null)
  /\ [][lastOp'.op = "onShowDetails"
          => /\ calls' = IF exception # Null
                         THEN <<openDialogCall(exception)>> ELSE <<>>
             /\ UNCHANGED ctrlFields]_vars

C16_Witness ==
  /\ lastOp.op = "onShowDetails"
  /\ exception = "gqlDetailed"
  /\ hasDetails
  /\ calls = <<openDialogCall("gqlDetailed")>>

\* C17: the close callback is invoked at most once: no step invokes it when
\* it has been invoked before.
C17_ClosedAtMostOnce ==
  [][(\E i \in 1..Len(calls') : calls'[i].fn = "onClose") => ~closed]_vars

\* C18: isConnecting is true whenever an onConnect call is awaiting the
\* connection opener.
C18_ConnectingWhileRequestInFlight ==
  connects > 0 => isConnecting

\* C19: with no onDBSourceSelect call in progress and a source selected,
\* authModel is absent or the model of the selected source's driver.
C19_AuthModelOfSelectedSource ==
  (pendingSelects = 0 /\ dbSource # Null)
    => authModel \in {Null, loadedModel(defaultAuthModel(driverId(dbSource)))}

\* C20: every open request carries the id of the source held in dbSource at
\* the moment it is issued.
C20_RequestNamesSelectedSource ==
  \A i \in 1..Len(calls) :
    calls[i].fn = "openConnectionAsync"
      => calls[i].cfg.dataSourceId = dbSource

====
